---------------------------- MODULE Spec2Model ----------------------------
(***************************************************************************)
(* A model of ip.js (src/ip.js, lines 1-260): the IPv4 address and subnet  *)
(* arithmetic library.                                                     *)
(*                                                                         *)
(* JavaScript values are tagged records:                                   *)
(*   Num(w)     a number holding an integer; w is the integer written in   *)
(*              base 65536 as [hi, lo], value = hi * 65536 + lo, because   *)
(*              the addresses (up to 2^32 - 1) and the sums the code forms *)
(*              (up to 2^33) do not fit the model checker's integers       *)
(*   NaN        the number NaN                                             *)
(*   Str(s)     a string; s is the sequence of its characters              *)
(*   Bool(b), Null, Undefined                                              *)
(*   objects    the records ip() and subnet() return                       *)
(* A call either returns a value, Ret(v), or throws, Throw(kind).          *)
(* Numbers with a fractional part are outside the model.                   *)
(***************************************************************************)
EXTENDS Integers, Sequences, FiniteSets

VARIABLES address, net, call

vars == <<address, net, call>>

-----------------------------------------------------------------------------
(* JavaScript values *)

Num(w) == [t |-> "number", n |-> w]
NaN == [t |-> "NaN"]
Str(s) == [t |-> "string", s |-> s]
Bool(b) == [t |-> "boolean", b |-> b]
Null == [t |-> "null"]
Undefined == [t |-> "undefined"]

Ret(v) == [ok |-> TRUE, val |-> v]
Throw(kind) == [ok |-> FALSE, err |-> kind]

\* typeof v
TypeOf(v) ==
    CASE v.t = "NaN" -> "number"
      [] v.t = "null" -> "object"
      [] OTHER -> v.t

-----------------------------------------------------------------------------
(* Integers in base 65536 *)

Base == 2 ^ 16

\* The value of a local variable: S is {e}, where e is the assigned expression
Only(S) == CHOOSE x \in S : TRUE

Norm(h, l) == [hi |-> h + (l \div Base), lo |-> l % Base]
W(k) == Norm(0, k)
Add(a, b) == Norm(a.hi + b.hi, a.lo + b.lo)
Sub(a, b) == Norm(a.hi - b.hi, a.lo - b.lo)
Lt(a, b) == a.hi < b.hi \/ (a.hi = b.hi /\ a.lo < b.lo)
Le(a, b) == a = b \/ Lt(a, b)
Times256(a) == Norm(a.hi * 256, a.lo * 256)
Mod256(a) == a.lo % 256
FloorDiv256(a) == [hi |-> a.hi \div 256, lo |-> (a.hi % 256) * 256 + (a.lo \div 256)]

\* Math.pow(2, k) for an integer k in 0..46
Pow2(k) == IF k < 16 THEN [hi |-> 0, lo |-> 2 ^ k] ELSE [hi |-> 2 ^ (k - 16), lo |-> 0]


\* The digits of a non-negative integer, most significant first, in base b
RECURSIVE Digits(_, _)
Digits(a, b) ==
    LET q == [hi |-> a.hi \div b, lo |-> ((a.hi % b) * Base + a.lo) \div b]
        r == ((a.hi % b) * Base + a.lo) % b
    IN  IF q = W(0) THEN <<r>> ELSE Append(Digits(q, b), r)

-----------------------------------------------------------------------------
(* Strings *)

DigitChars == <<"0", "1", "2", "3", "4", "5", "6", "7", "8", "9">>
IsDigit(c) == \E i \in 1..10 : DigitChars[i] = c
DigitVal(c) == (CHOOSE i \in 1..10 : DigitChars[i] = c) - 1
WhiteSpace == {" "}

\* Number.prototype.toString(radix) of a non-negative integer
NumberToString(a, radix) ==
    LET digits == Digits(a, radix)
    IN  [j \in 1..Len(digits) |-> DigitChars[digits[j] + 1]]

\* String(v) for the values the code concatenates into strings
StringOf(v) ==
    CASE v.t = "string" -> v.s
      [] v.t = "number" -> NumberToString(v.n, 10)
      [] v.t = "null" -> <<"n", "u", "l", "l">>
      [] v.t = "NaN" -> <<"N", "a", "N">>
      [] OTHER -> <<"u", "n", "d", "e", "f", "i", "n", "e", "d">>

\* String.prototype.indexOf(c) and lastIndexOf(c), zero-based, -1 when absent
IndexOf(s, c) ==
    IF \E i \in 1..Len(s) : s[i] = c
    THEN (CHOOSE i \in 1..Len(s) : s[i] = c /\ \A j \in 1..(i - 1) : s[j] # c) - 1
    ELSE -1
LastIndexOf(s, c) ==
    IF \E i \in 1..Len(s) : s[i] = c
    THEN (CHOOSE i \in 1..Len(s) : s[i] = c /\ \A j \in (i + 1)..Len(s) : s[j] # c) - 1
    ELSE -1

\* String.prototype.split(c)
RECURSIVE Split(_, _)
Split(s, c) ==
    LET at == IndexOf(s, c)
    IN  IF at = -1 THEN <<s>>
        ELSE <<SubSeq(s, 1, at)>> \o Split(SubSeq(s, at + 2, Len(s)), c)

\* The longest prefix of s made of digits
RECURSIVE DigitPrefix(_)
DigitPrefix(s) ==
    IF s # <<>> /\ IsDigit(Head(s)) THEN <<Head(s)>> \o DigitPrefix(Tail(s)) ELSE <<>>

RECURSIVE SkipWhiteSpace(_)
SkipWhiteSpace(s) ==
    IF s # <<>> /\ Head(s) \in WhiteSpace THEN SkipWhiteSpace(Tail(s)) ELSE s

\* The value of a sequence of decimal digits
RECURSIVE DecimalValue(_, _)
DecimalValue(ds, acc) ==
    IF ds = <<>> THEN acc
    ELSE DecimalValue(Tail(ds), Norm(acc.hi * 10, acc.lo * 10 + DigitVal(Head(ds))))

\* parseInt(v, 10): leading white space, an optional sign, then the longest run
\* of digits; NaN when there is no digit
SignedDigits(text) ==
    LET signed == text # <<>> /\ Head(text) \in {"+", "-"}
    IN  Only({IF run = <<>> THEN NaN
              ELSE IF signed /\ Head(text) = "-"
              THEN Num(Sub(W(0), DecimalValue(run, W(0))))
              ELSE Num(DecimalValue(run, W(0))) :
                  run \in {DigitPrefix(IF signed THEN Tail(text) ELSE text)}})
ParseInt(v) == Only({SignedDigits(text) : text \in {SkipWhiteSpace(StringOf(v))}})

-----------------------------------------------------------------------------
(* src/ip.js: the converters *)

MaxAddress == [hi |-> Base - 1, lo |-> Base - 1]

\* The loop of ipv4DotNotationToNumber, from index i with the value so far
RECURSIVE ParseDecimals(_, _, _)
ParseDecimals(decimals, i, ipv4Numeric) ==
    IF i >= 4 THEN Ret(Num(ipv4Numeric))
    ELSE Only({IF decimal.t = "NaN" \/ Lt(decimal.n, W(0)) \/ Lt(W(255), decimal.n)
               THEN Throw("Error")
               ELSE ParseDecimals(decimals, i + 1, Add(Times256(ipv4Numeric), decimal.n)) :
                   decimal \in {ParseInt(IF i < Len(decimals) THEN Str(decimals[i + 1])
                                         ELSE Undefined)}})

ipv4DotNotationToNumber(ipv4DotNotation) ==
    IF TypeOf(ipv4DotNotation) # "string" THEN Throw("TypeError")
    ELSE Only({ParseDecimals(decimals, 0, W(0)) :
                   decimals \in {Split(ipv4DotNotation.s, ".")}})

\* The loop of ipv4NumberToDotNotation: i counts down from 4
RECURSIVE FormatOctets(_, _, _)

\* FormatOctets with each octet appended after the string instead of put before it
RECURSIVE FormatOctetsAppending(_, _, _)
FormatOctetsAppending(ipv4Numeric, ipv4DotNotation, i) ==
    IF i - 1 > 0
    THEN LET next == FloorDiv256(ipv4Numeric)
         IN  FormatOctetsAppending(next,
                 ipv4DotNotation \o <<".">> \o NumberToString(W(Mod256(next)), 10),
                 i - 1)
    ELSE ipv4DotNotation

FormatOctets(ipv4Numeric, ipv4DotNotation, i) ==
    IF i - 1 > 0
    THEN LET next == FloorDiv256(ipv4Numeric)
         IN  FormatOctets(next,
                          NumberToString(W(Mod256(next)), 10) \o <<".">> \o ipv4DotNotation,
                          i - 1)
    ELSE ipv4DotNotation

\* ipv4NumberToDotNotation without the range check
ipv4NumberToDotNotationUnchecked(ipv4Numeric) ==
    IF TypeOf(ipv4Numeric) # "number" THEN Throw("TypeError")
    ELSE Ret(Str(FormatOctets(ipv4Numeric.n,
                              NumberToString(W(Mod256(ipv4Numeric.n)), 10), 4)))

ipv4NumberToDotNotation(ipv4Numeric) ==
    IF TypeOf(ipv4Numeric) # "number" THEN Throw("TypeError")
    ELSE IF ipv4Numeric.t = "NaN"
    THEN Ret(Str(<<"N", "a", "N", ".", "N", "a", "N", ".", "N", "a", "N", ".", "N", "a", "N">>))
    ELSE IF Lt(ipv4Numeric.n, W(0)) \/ Lt(MaxAddress, ipv4Numeric.n) THEN Throw("Error")
    ELSE Ret(Str(FormatOctets(ipv4Numeric.n,
                              NumberToString(W(Mod256(ipv4Numeric.n)), 10), 4)))

-----------------------------------------------------------------------------
(* 32-bit integer operators *)

\* ToUint32 and ToInt32 of an integer
ToUint32(a) == [hi |-> a.hi % Base, lo |-> a.lo]
ToInt32(a) ==
    LET unsigned == ToUint32(a)
    IN  IF unsigned.hi >= 2 ^ 15 THEN Sub(unsigned, Pow2(32)) ELSE unsigned

\* u * 2^k modulo 2^32, for u in 0..2^32-1 and k in 0..31
Shifted(u, k) ==
    IF k < 16
    THEN Norm((u.hi % (2 ^ (16 - k))) * (2 ^ k), u.lo * (2 ^ k))
    ELSE [hi |-> (u.lo * (2 ^ (k - 16))) % Base, lo |-> 0]

\* a << count: the shift count is taken modulo 32, the result is an int32
ShiftLeft(a, count) == ToInt32(Shifted(ToUint32(a), count % 32))

\* a >>> 0
UnsignedShiftRight0(a) == ToUint32(a)

\* Bitwise and of two integers in 0..2^16-1
RECURSIVE And16(_, _)
And16(x, y) ==
    IF x = 0 \/ y = 0 THEN 0
    ELSE 2 * And16(x \div 2, y \div 2) + (IF x % 2 = 1 /\ y % 2 = 1 THEN 1 ELSE 0)

\* a & b: an int32
BitAnd(a, b) ==
    LET ua == ToUint32(a)
        ub == ToUint32(b)
    IN  ToInt32([hi |-> And16(ua.hi, ub.hi), lo |-> And16(ua.lo, ub.lo)])

-----------------------------------------------------------------------------
(* src/ip.js: the address, the netmask and the subnet *)

ip(addr) ==
    IF TypeOf(addr) = "string"
    THEN Only({IF numeric.ok
               THEN Ret([t |-> "object", numeric |-> numeric.val, notation |-> addr])
               ELSE numeric :
                   numeric \in {ipv4DotNotationToNumber(addr)}})
    ELSE IF TypeOf(addr) = "number"
    THEN Only({IF notation.ok
               THEN Ret([t |-> "object", numeric |-> addr, notation |-> notation.val])
               ELSE notation :
                   notation \in {ipv4NumberToDotNotation(addr)}})
    ELSE Throw("TypeError")

\* netmask === netmask && netmask >= 0 && netmask <= 32, for a number
InPrefixRange(v) == v.t = "number" /\ Le(W(0), v.n) /\ Le(v.n, W(32))

\* The dotted branch of netmaskToPrefixSize, from the binary digits of the mask
PrefixOfBinary(bin) ==
    Only({IF lastIndexOfOne # -1 /\ firstIndexOfZero # -1
             /\ lastIndexOfOne < firstIndexOfZero
          THEN Num(W(firstIndexOfZero))
          ELSE Null :
              lastIndexOfOne \in {LastIndexOf(bin, "1")},
              firstIndexOfZero \in {IndexOf(bin, "0")}})

netmaskToPrefixSize(netmask) ==
    IF TypeOf(netmask) = "string"
    THEN IF IndexOf(netmask.s, ".") # -1
         THEN Only({IF ~maskAddress.ok THEN maskAddress
                    ELSE Only({Ret(PrefixOfBinary(bin)) :
                                  bin \in {NumberToString(maskAddress.val.numeric.n, 2)}}) :
                        maskAddress \in {ip(netmask)}})
         ELSE Only({Ret(IF InPrefixRange(parsed) THEN parsed ELSE Null) :
                        parsed \in {ParseInt(netmask)}})
    ELSE Ret(IF InPrefixRange(netmask) THEN netmask ELSE Null)

\* The number a prefix size converts to in arithmetic and comparisons: null is 0
\* (a prefix size is null or an integer in 0..32)
PrefixNumber(prefixSize) == IF prefixSize.t = "null" THEN 0 ELSE prefixSize.n.lo

\* maskedAddress = (ipNumeric & ((0xffffffff << bits) >>> 0)) >>> 0
MaskedAddress(ipNumeric, bits) ==
    UnsignedShiftRight0(
        BitAnd(ipNumeric.n, UnsignedShiftRight0(ShiftLeft(MaxAddress, bits))))

\* subnet(), after prefixSize, maskedAddress and the dotted form of ipNumeric
\* are computed
Boundaries(ipNumeric, prefixSize, maskedAddress, dotted) ==
    LET bits == 32 - PrefixNumber(prefixSize)
        size == Pow2(bits)
        cidr == Str(dotted.s \o <<"/">> \o StringOf(prefixSize))
    IN  IF PrefixNumber(prefixSize) < 31
        THEN LET firstNumeric == Num(Add(maskedAddress, W(1)))
                 lastNumeric == Num(Sub(Add(maskedAddress, size), W(2)))
                 broadcastNumeric == Num(Sub(Add(maskedAddress, size), W(1)))
                 networkNumeric == Num(maskedAddress)
             IN  Only({IF ~first.ok THEN first
                       ELSE IF ~last.ok THEN last
                       ELSE IF ~network.ok THEN network
                       ELSE IF ~broadcast.ok THEN broadcast
                       ELSE Ret([t |-> "object", ipNumeric |-> ipNumeric,
                                 prefixSize |-> prefixSize, cidr |-> cidr,
                                 size |-> Num(size),
                                 firstNumeric |-> firstNumeric,
                                 lastNumeric |-> lastNumeric,
                                 networkNumeric |-> networkNumeric,
                                 broadcastNumeric |-> broadcastNumeric,
                                 first |-> first.val, last |-> last.val,
                                 network |-> network.val,
                                 broadcast |-> broadcast.val]) :
                           first \in {ipv4NumberToDotNotation(firstNumeric)},
                           last \in {ipv4NumberToDotNotation(lastNumeric)},
                           network \in {ipv4NumberToDotNotation(networkNumeric)},
                           broadcast \in {ipv4NumberToDotNotation(broadcastNumeric)}})
        ELSE LET firstNumeric == ipNumeric
                 lastNumeric == Num(Sub(Add(maskedAddress, size), W(1)))
             IN  Only({IF ~first.ok THEN first
                       ELSE IF ~last.ok THEN last
                       ELSE Ret([t |-> "object", ipNumeric |-> ipNumeric,
                                 prefixSize |-> prefixSize, cidr |-> cidr,
                                 size |-> Num(size),
                                 firstNumeric |-> firstNumeric,
                                 lastNumeric |-> lastNumeric,
                                 networkNumeric |-> Undefined,
                                 broadcastNumeric |-> Undefined,
                                 first |-> first.val, last |-> last.val,
                                 network |-> Undefined, broadcast |-> Undefined]) :
                           first \in {ipv4NumberToDotNotation(firstNumeric)},
                           last \in {ipv4NumberToDotNotation(lastNumeric)}})

\* subnet(), after the netmask is normalized
SubnetOf(ipNumeric, prefixSize) ==
    Only({IF ~dotted.ok THEN dotted
          ELSE Boundaries(ipNumeric, prefixSize, maskedAddress, dotted.val) :
              maskedAddress \in {MaskedAddress(ipNumeric, 32 - PrefixNumber(prefixSize))},
              dotted \in {ipv4NumberToDotNotation(ipNumeric)}})

subnet(ipNumeric, netmask) ==
    Only({IF ~normalized.ok THEN normalized ELSE SubnetOf(ipNumeric, normalized.val) :
              normalized \in {netmaskToPrefixSize(netmask)}})

\* x || y for x undefined or a number: undefined and 0 are falsy
OrElse(x, y) == IF x.t = "undefined" \/ x = Num(W(0)) THEN y ELSE x

\* contains with the upper bound excluded
containsBelowLast(sn, addr) ==
    Only({IF ~candidate.ok THEN candidate
          ELSE Ret(Bool(/\ Le(OrElse(sn.networkNumeric, sn.firstNumeric).n,
                              candidate.val.numeric.n)
                        /\ Lt(candidate.val.numeric.n,
                              OrElse(sn.broadcastNumeric, sn.lastNumeric).n))) :
              candidate \in {ip(addr)}})

\* The contains method of the subnet object sn
contains(sn, addr) ==
    Only({IF ~candidate.ok THEN candidate
          ELSE Ret(Bool(/\ Le(OrElse(sn.networkNumeric, sn.firstNumeric).n,
                              candidate.val.numeric.n)
                        /\ Le(candidate.val.numeric.n,
                              OrElse(sn.broadcastNumeric, sn.lastNumeric).n))) :
              candidate \in {ip(addr)}})

-----------------------------------------------------------------------------
(* The inputs the calls are tried on *)

OctetSpread == 1
MaxSegments == 5
MaskSpread == 1
AddrSpread == 1
CandSpread == 1

\* The integer with the four given octets, most significant first
FromOctets(a, b, c, d) == [hi |-> a * 256 + b, lo |-> c * 256 + d]

\* The segments joined with dots
RECURSIVE Join(_)
Join(segs) ==
    IF Len(segs) = 1 THEN segs[1] ELSE segs[1] \o <<".">> \o Join(Tail(segs))

\* The canonical dot-decimal string of an integer in 0..2^32-1
Dotted(w) ==
    Join(<<NumberToString(W(w.hi \div 256), 10), NumberToString(W(w.hi % 256), 10),
           NumberToString(W(w.lo \div 256), 10), NumberToString(W(w.lo % 256), 10)>>)

\* The integers within spread of 2^k, for k in exps
Near(exps, spread) == {Add(Pow2(k), W(d)) : k \in exps, d \in (-spread)..spread}
IsAddress(w) == Le(W(0), w) /\ Le(w, MaxAddress)

OctetSamples ==
    (0..OctetSpread) \cup ((255 - OctetSpread)..255) \cup {9, 10, 99, 100, 127, 128}
SegmentSamples ==
    {<<"0">>, <<"1", "0">>, <<"2", "5", "5">>, <<"2", "5", "6">>, <<>>, <<"1", "a">>}
SpecialStrings ==
    {<<"-", "1", ".", "0", ".", "0", ".", "0">>,
     <<" ", "7", ".", "0", ".", "0", ".", "1">>,
     <<"0", "0", "7", ".", "0", ".", "0", ".", "1">>,
     <<"+", "7", ".", "0", ".", "0", ".", "1">>,
     <<"a", ".", "b", ".", "c", ".", "d">>,
     <<"1", "2", "7">>}
OtherValues == {Null, Undefined, NaN, Bool(TRUE)}

ConvNumbers ==
    {FromOctets(a, b, c, d) : a \in OctetSamples, b \in OctetSamples,
                              c \in OctetSamples, d \in OctetSamples}
    \cup {Add(Pow2(32), W(d)) : d \in 0..OctetSpread}
    \cup {W(-1 - d) : d \in 0..OctetSpread}
ConvStrings ==
    {Join(segs) : segs \in UNION {[1..n -> SegmentSamples] : n \in 1..MaxSegments}}
    \cup SpecialStrings
ConvInputs ==
    {Num(w) : w \in ConvNumbers} \cup {Str(x) : x \in ConvStrings} \cup OtherValues

\* Every 32-bit value with one run of one-bits (bits k..j-1), and every value
\* with the top 32-k bits set and one more bit m below a zero bit
OneRuns ==
    {Sub(Pow2(p[1]), Pow2(p[2])) : p \in {q \in (1..32) \X (0..31) : q[2] < q[1]}}
BrokenRuns ==
    {Add(Sub(Pow2(32), Pow2(p[1])), Pow2(p[2])) :
        p \in {q \in (2..31) \X (0..29) : q[2] + 1 < q[1]}}
MaskNumbers == {W(k) : k \in (-MaskSpread)..(32 + MaskSpread)}
MaskStrings ==
    {NumberToString(W(k), 10) : k \in 0..(32 + MaskSpread)}
    \cup {<<"-", "1">>, <<"a", "b", "c">>, <<>>, <<"2", "4", "a">>, <<" ", "2", "4">>,
          <<"0", "2", "4">>, <<"1", ".", "2", ".", "3">>,
          <<"2", "5", "6", ".", "0", ".", "0", ".", "0">>, <<"2", "4", ".">>}
MaskInputs ==
    {Num(w) : w \in MaskNumbers} \cup {Str(x) : x \in MaskStrings}
    \cup {Str(Dotted(w)) : w \in OneRuns \cup BrokenRuns \cup {W(0)}}
    \cup OtherValues


AddrNumbers == Near({0, 1, 8, 24, 31, 32}, AddrSpread) \cup {FromOctets(127, 0, 0, 1)}
AddrInputs ==
    {Num(w) : w \in AddrNumbers}
    \cup {Str(Dotted(w)) : w \in {x \in AddrNumbers : IsAddress(x)}}
    \cup {Str(<<"1", ".", "2", ".", "3">>), Null}

MaskArgs ==
    {Num(w) : w \in MaskNumbers}
    \cup {Str(NumberToString(W(k), 10)) : k \in {0, 24, 31, 32, 32 + MaskSpread}}
    \cup {Str(<<"a", "b", "c">>), Str(<<"-", "1">>), Null, Undefined}
    \cup {Str(Dotted(w)) :
            w \in {W(0), Pow2(31), FromOctets(255, 255, 255, 0),
                   FromOctets(255, 255, 255, 254), MaxAddress,
                   FromOctets(255, 0, 255, 0), W(2)}}

CandNumbers == Near(0..32, CandSpread) \cup {FromOctets(127, 0, 0, 5)}
CandInputs ==
    {Num(w) : w \in CandNumbers}
    \cup {Str(Dotted(w)) : w \in {W(0), FromOctets(127, 0, 0, 5), MaxAddress}}
    \cup {Str(<<"1", ".", "2", ".", "3">>), Undefined}

-----------------------------------------------------------------------------
(* The caller: ip(address), then .mask(netmask), then .contains(address).  *)
(* The objects are immutable, so one call of each is followed.             *)

NoCall == [op |-> "none", arg |-> Undefined, out |-> Undefined]
Pending(x) == [op |-> "pending", arg |-> x, out |-> Undefined]

Init ==
    /\ address = Undefined
    /\ net = Undefined
    /\ call = NoCall

\* The main constructor: ip(a), with the mask method attached
Construct(a) ==
    /\ call.op = "none"
    /\ \E r \in {ip(a)} :
           /\ address' = IF r.ok THEN r.val ELSE Undefined
           /\ call' = [op |-> "ip", arg |-> a, out |-> r]
    /\ UNCHANGED net

\* address.mask(m)
Mask(m) ==
    /\ call.op = "ip"
    /\ address.t = "object"
    /\ \E r \in {subnet(address.numeric, m)} :
           /\ net' = IF r.ok THEN r.val ELSE Undefined
           /\ call' = [op |-> "mask", arg |-> m, out |-> r]
    /\ UNCHANGED address

\* subnet.contains(c)
Contains(c) ==
    /\ call.op = "mask"
    /\ net.t = "object"
    /\ call' = [op |-> "contains", arg |-> c, out |-> contains(net, c)]
    /\ UNCHANGED <<address, net>>

Next ==
    \/ \E a \in AddrInputs : Construct(a)
    \/ \E m \in MaskArgs : Mask(m)
    \/ \E c \in CandInputs : Contains(c)

Spec == Init /\ [][Next]_vars

-----------------------------------------------------------------------------
(* The converters applied to each input *)

InitConv ==
    /\ address = Undefined
    /\ net = Undefined
    /\ call \in {Pending(x) : x \in ConvInputs}

Parse ==
    /\ call.op = "pending"
    /\ call' = [op |-> "ipv4DotNotationToNumber", arg |-> call.arg,
                out |-> ipv4DotNotationToNumber(call.arg)]
    /\ UNCHANGED <<address, net>>

Format ==
    /\ call.op = "pending"
    /\ call' = [op |-> "ipv4NumberToDotNotation", arg |-> call.arg,
                out |-> ipv4NumberToDotNotation(call.arg)]
    /\ UNCHANGED <<address, net>>

NextConv == Parse \/ Format

SpecConv == InitConv /\ [][NextConv]_vars

-----------------------------------------------------------------------------
(* The netmask normalizer applied to each input *)

InitMask ==
    /\ address = Undefined
    /\ net = Undefined
    /\ call \in {Pending(x) : x \in MaskInputs}

Normalize ==
    /\ call.op = "pending"
    /\ call' = [op |-> "netmaskToPrefixSize", arg |-> call.arg,
                out |-> netmaskToPrefixSize(call.arg)]
    /\ UNCHANGED <<address, net>>

NextMask == Normalize

SpecMask == InitMask /\ [][NextMask]_vars

-----------------------------------------------------------------------------
(* Properties *)

\* The 32-bit netmask of prefix length p: p one-bits, then 32 - p zero-bits
PrefixMask(p) == Sub(Pow2(32), Pow2(32 - p))

\* w with its low nbits bits cleared, for w in 0..2^32-1 and nbits in 0..32
ClearLow(w, nbits) ==
    IF nbits <= 16
    THEN [hi |-> w.hi, lo |-> w.lo - (w.lo % (2 ^ nbits))]
    ELSE [hi |-> w.hi - (w.hi % (2 ^ (nbits - 16))), lo |-> 0]

\* A segment of a dotted string that is a decimal integer in 0..255: digits
\* only, after optional white space and an optional sign
IsOctetText(seg) ==
    LET text == SkipWhiteSpace(seg)
        signed == text # <<>> /\ Head(text) \in {"+", "-"}
        body == IF signed THEN Tail(text) ELSE text
    IN  /\ body # <<>>
        /\ \A j \in 1..Len(body) : IsDigit(body[j])
        /\ Le(DecimalValue(body, W(0)), W(255))
        /\ (signed /\ Head(text) = "-") => DecimalValue(body, W(0)) = W(0)

Formatted == call.op = "ipv4NumberToDotNotation"
Parsed == call.op = "ipv4DotNotationToNumber"
Normalized == call.op = "netmaskToPrefixSize"
Masked == call.op = "mask"
Asked == call.op = "contains"

\* C1: every integer n in 0..4294967295 is formatted to a string that parses
\* back to exactly n.
C1_RoundTrip ==
    (Formatted /\ call.arg.t = "number" /\ IsAddress(call.arg.n))
        => /\ call.out.ok
           /\ ipv4DotNotationToNumber(call.out.val) = Ret(call.arg)

C1_Witness ==
    /\ Formatted
    /\ call.arg = Num(FromOctets(127, 0, 0, 1))
    /\ call.out = Ret(Str(<<"1", "2", "7", ".", "0", ".", "0", ".", "1">>))

\* C2: for every prefix length p in 0..32 the normalizer returns p for the
\* number p, for the decimal string of p and for the dotted mask of p.
C2_AllFormsNormalize ==
    \A p \in 0..32 :
        (Normalized /\ call.arg \in {Num(W(p)), Str(NumberToString(W(p), 10)),
                                     Str(Dotted(PrefixMask(p)))})
            => call.out = Ret(Num(W(p)))

\* C3: a dotted mask is normalized to a prefix length only if its 32-bit value
\* is a run of one-bits followed by a run of zero-bits.
C3_ContiguityRejection ==
    (Normalized /\ call.arg.t = "string" /\ IndexOf(call.arg.s, ".") # -1
       /\ call.out.ok /\ call.out.val.t = "number")
        => \E p \in 0..32 : ipv4DotNotationToNumber(call.arg) = Ret(Num(PrefixMask(p)))

\* C4: contains(c) of a subnet with a network and a broadcast address is true
\* exactly when network <= c <= broadcast, and of a subnet without them exactly
\* when first <= c <= last.
C4_ContainsIsRange ==
    (Asked /\ call.out.ok /\ net.prefixSize.t = "number")
        => LET c == ip(call.arg).val.numeric.n
           IN  call.out.val.b =
                   IF net.networkNumeric.t = "number"
                   THEN Le(net.networkNumeric.n, c) /\ Le(c, net.broadcastNumeric.n)
                   ELSE Le(net.firstNumeric.n, c) /\ Le(c, net.lastNumeric.n)

\* C5: mask(netmask) with a netmask that is no prefix length in 0..32 throws
\* and returns no subnet.
InvalidNetmasks ==
    {Num(W(-1)), Num(W(33)), Str(<<"a", "b", "c">>), Str(<<"-", "1">>),
     Str(Dotted(FromOctets(255, 0, 255, 0)))}
C5_InvalidNetmaskFails ==
    (Masked /\ call.arg \in InvalidNetmasks) => (~call.out.ok /\ net = Undefined)

\* C6: a string is parsed only if splitting it on "." yields exactly four
\* segments, each an integer in 0..255; otherwise the parse throws Error.
C6_ExactlyFourSegments ==
    (Parsed /\ call.arg.t = "string")
        => LET segments == Split(call.arg.s, ".")
           IN  IF Len(segments) = 4 /\ \A j \in 1..4 : IsOctetText(segments[j])
               THEN call.out.ok
               ELSE call.out = Throw("Error")

\* C7: mask(31) returns a subnet of size 2 without network and broadcast,
\* with first = A and last = (A with its lowest bit cleared) + 1, and first
\* and last are the two distinct addresses of the pair.
C7_Slash31 ==
    (Masked /\ call.arg \in {Num(W(31)), Str(<<"3", "1">>)})
        => /\ call.out.ok
           /\ net.size = Num(W(2))
           /\ net.network = Undefined /\ net.broadcast = Undefined
           /\ net.firstNumeric = address.numeric
           /\ net.lastNumeric = Num(Add(ClearLow(address.numeric.n, 1), W(1)))
           /\ net.firstNumeric # net.lastNumeric

\* C8: mask(32) returns a subnet of size 1 with first = last = A and without
\* network and broadcast, and its contains(c) is true exactly when c = A.
C8_Slash32 ==
    /\ (Masked /\ call.arg \in {Num(W(32)), Str(<<"3", "2">>)})
           => /\ call.out.ok
              /\ net.size = Num(W(1))
              /\ net.firstNumeric = address.numeric
              /\ net.lastNumeric = address.numeric
              /\ net.first = Str(Dotted(address.numeric.n))
              /\ net.last = Str(Dotted(address.numeric.n))
              /\ net.network = Undefined /\ net.broadcast = Undefined
    /\ (Asked /\ net.prefixSize = Num(W(32)) /\ ip(call.arg).ok)
           => call.out = Ret(Bool(ip(call.arg).val.numeric = address.numeric))

C8_Witness ==
    /\ Asked
    /\ net.prefixSize = Num(W(32))
    /\ address.numeric = Num(W(0))
    /\ call.arg = Num(W(0))
    /\ call.out = Ret(Bool(TRUE))

\* C9: mask(0) succeeds with network 0.0.0.0, broadcast 255.255.255.255 and
\* size 2^32, and for every prefix p in 0..30 the network is A with its low
\* 32 - p bits cleared.
C9_MaskZero ==
    \A p \in 0..30 :
        (Masked /\ call.arg = Num(W(p)))
            => /\ call.out.ok
               /\ net.networkNumeric = Num(ClearLow(address.numeric.n, 32 - p))
               /\ p = 0 => /\ net.network = Str(Dotted(W(0)))
                            /\ net.broadcast = Str(Dotted(MaxAddress))
                            /\ net.size = Num(Pow2(32))

\* C10: a subnet with network and broadcast has first = network + 1,
\* last = broadcast - 1, broadcast = network + size - 1,
\* size = 2^(32 - prefix) >= 4, and its four boundaries lie in 0..4294967295.
C10_Boundaries ==
    (Masked /\ call.out.ok /\ net.network.t = "string")
        => /\ net.broadcast.t = "string"
           /\ PrefixNumber(net.prefixSize) < 31
           /\ net.size = Num(Pow2(32 - PrefixNumber(net.prefixSize)))
           /\ Le(W(4), net.size.n)
           /\ net.firstNumeric.n = Add(net.networkNumeric.n, W(1))
           /\ net.lastNumeric.n = Sub(net.broadcastNumeric.n, W(1))
           /\ net.broadcastNumeric.n = Sub(Add(net.networkNumeric.n, net.size.n), W(1))
           /\ IsAddress(net.firstNumeric.n) /\ IsAddress(net.lastNumeric.n)
           /\ IsAddress(net.networkNumeric.n) /\ IsAddress(net.broadcastNumeric.n)
           /\ ipv4DotNotationToNumber(net.first) = Ret(net.firstNumeric)
           /\ ipv4DotNotationToNumber(net.last) = Ret(net.lastNumeric)
           /\ ipv4DotNotationToNumber(net.network) = Ret(net.networkNumeric)
           /\ ipv4DotNotationToNumber(net.broadcast) = Ret(net.broadcastNumeric)

C10_Witness ==
    /\ Masked
    /\ address.numeric = Num(FromOctets(127, 0, 0, 1))
    /\ call.arg = Num(W(24))
    /\ net.network = Str(Dotted(FromOctets(127, 0, 0, 0)))
    /\ net.broadcast = Str(Dotted(FromOctets(127, 0, 0, 255)))
    /\ net.size = Num(W(256))

=============================================================================
